---- MODULE Spec2Model ----
(***************************************************************************)
(* Enrollment lifecycle and time-boxed access control of the student       *)
(* portal LMS: EnrollmentApplication -> Enrollment -> PaymentProof, the    *)
(* expiration evaluation of Enrollment.update_expiration_status and the    *)
(* enrollment gates of the content-serving handlers.                       *)
(*                                                                         *)
(* Time is counted in hours.  A datetime is a record [wall, aware, zone]:   *)
(* the wall-clock reading, whether the value carries tzinfo (Asia/Karachi) *)
(* and the clock the reading was taken from.  A DateTime column keeps the  *)
(* wall-clock reading and drops tzinfo, so every value loaded from a row   *)
(* is naive.                                                               *)
(***************************************************************************)
EXTENDS Integers, FiniteSets, Sequences, TLC

\* ------------------------------------------------------------------ bounds
MaxOps == 4
MaxTicks == 2
MaxReqs == 2

\* ------------------------------------------------------- program constants
HoursPerDay == 24
DaysPerMonth == 30
DaysPerYear == 365
PKT_OFFSET == 5
Percent == 100

Users == {"u1", "u2"}
Courses == {"c1"}
Statuses == {"pending", "approved", "rejected"}
Durations == {-1, 1, 2}
\* what a quiz submission carries for the quiz's one question: an answer that
\* is wrong or right, no answer at all, or an answer to a question of
\* another quiz
Payloads == {"wrong_option", "right_option", "no_answers", "foreign_question"}
TickSteps == {1, PKT_OFFSET, DaysPerMonth * HoursPerDay}

\* Optional[datetime] None and Optional[int] None
None == [wall |-> 0, aware |-> FALSE, none |-> TRUE, zone |-> "none"]
NoDays == [none |-> TRUE, val |-> 0]
Days(v) == [none |-> FALSE, val |-> v]

VARIABLES
    now,            \* the current instant, hours since the epoch, UTC
    ticks,          \* how often the clock has advanced
    nops,           \* how many lifecycle and admin requests have committed
    nextId,         \* next primary key
    courses,        \* Course rows (their ids)
    videos,         \* Video rows (one per course, named by its course)
    quizzes,        \* Quiz rows (one per course, named by its course)
    applications,   \* EnrollmentApplication rows
    enrollments,    \* Enrollment rows
    payment_proofs, \* PaymentProof rows
    notifications,  \* Notification rows
    video_progress, \* VideoProgress rows (one video per course)
    quiz_submissions, \* QuizSubmission rows with their Answers
    course_progress,  \* CourseProgress rows
    last,           \* the request served last and its response
    reqs            \* requests between lookup and commit (SpecConc only)

vars == <<now, ticks, nops, nextId, courses, videos, quizzes, applications,
          enrollments, payment_proofs, notifications, video_progress,
          quiz_submissions, course_progress, last, reqs>>
study == <<quiz_submissions, course_progress>>
content == <<courses, videos, quizzes>>
db == <<courses, videos, quizzes, applications, enrollments, payment_proofs,
        notifications, video_progress>>

\* ------------------------------------------------------------------ clock
\* zone records which clock the wall reading was taken from; a value is made
\* aware only by the Pakistan clock, naive only by datetime.utcnow()
DT(w, a) == [wall |-> w, aware |-> a, none |-> FALSE,
             zone |-> IF a THEN "pkt" ELSE "utc"]

utcnow == DT(now, FALSE)

get_pakistan_time == DT(now + PKT_OFFSET, TRUE)

convert_to_pakistan_time(dt) ==
    IF dt.aware THEN dt ELSE DT(dt.wall + PKT_OFFSET, TRUE)

\* timedelta arithmetic keeps tzinfo
AddHours(dt, h) == [dt EXCEPT !.wall = dt.wall + h]

\* what a DateTime column gives back after commit: tzinfo is gone
Stored(dt) == IF dt.none THEN None ELSE [dt EXCEPT !.aware = FALSE]

\* the instant (UTC hours) a datetime denotes; a naive value is read as UTC
Instant(dt) == IF dt.aware THEN dt.wall - PKT_OFFSET ELSE dt.wall

\* ------------------------------------------------------------ row lookups
\* .first() of a select without ORDER BY: the oldest matching row
First(rows) == CHOOSE r \in rows : \A s \in rows : r.id <= s.id

AppsOf(u, c) == {a \in applications : a.user_id = u /\ a.course_id = c}
EnrollmentsOf(u, c) == {e \in enrollments : e.user_id = u /\ e.course_id = c}
ProofsOf(e) == {p \in payment_proofs : p.enrollment_id = e.id}

Notification(id, u, c, ev) == [id |-> id, user_id |-> u, course_id |-> c, event_type |-> ev]

\* the request served and the HTTP status it answered; arg is the request's
\* integer parameter (application id, duration_months), st its status parameter
Resp(op, u, c, code, arg, st) ==
    [op |-> op, user |-> u, course |-> c, code |-> code, arg |-> arg, st |-> st]

\* ---------------------------------------------------- access evaluation
update_expiration_status_inclusive(e) ==
    IF ~e.expiration_date.none
    THEN LET exp == IF ~e.expiration_date.aware
                    THEN convert_to_pakistan_time(e.expiration_date)
                    ELSE e.expiration_date
             time_diff == exp.wall - get_pakistan_time.wall
         IN [e EXCEPT !.expiration_date = exp,
                      !.days_remaining = Days(time_diff \div HoursPerDay),
                      !.is_accessible = (time_diff >= 0),
                      !.last_access_date = get_pakistan_time]
    ELSE [e EXCEPT !.days_remaining = NoDays, !.is_accessible = TRUE,
                   !.last_access_date = get_pakistan_time]

update_expiration_status_none_denied(e) ==
    IF ~e.expiration_date.none
    THEN LET exp == IF ~e.expiration_date.aware
                    THEN convert_to_pakistan_time(e.expiration_date)
                    ELSE e.expiration_date
             time_diff == exp.wall - get_pakistan_time.wall
         IN [e EXCEPT !.expiration_date = exp,
                      !.days_remaining = Days(time_diff \div HoursPerDay),
                      !.is_accessible = (time_diff > 0),
                      !.last_access_date = get_pakistan_time]
    ELSE [e EXCEPT !.days_remaining = NoDays, !.is_accessible = FALSE,
                   !.last_access_date = get_pakistan_time]

update_expiration_status_clamped(e) ==
    IF ~e.expiration_date.none
    THEN LET exp == IF ~e.expiration_date.aware
                    THEN convert_to_pakistan_time(e.expiration_date)
                    ELSE e.expiration_date
             time_diff == exp.wall - get_pakistan_time.wall
         IN [e EXCEPT !.expiration_date = exp,
                      !.days_remaining = Days(IF time_diff < 0 THEN 0
                                              ELSE time_diff \div HoursPerDay),
                      !.is_accessible = (time_diff > 0),
                      !.last_access_date = get_pakistan_time]
    ELSE [e EXCEPT !.days_remaining = NoDays, !.is_accessible = TRUE,
                   !.last_access_date = get_pakistan_time]

update_expiration_status(e) ==
    IF ~e.expiration_date.none
    THEN LET exp == IF ~e.expiration_date.aware
                    THEN convert_to_pakistan_time(e.expiration_date)
                    ELSE e.expiration_date
             time_diff == exp.wall - get_pakistan_time.wall
         IN [e EXCEPT !.expiration_date = exp,
                      !.days_remaining = Days(time_diff \div HoursPerDay),
                      !.is_accessible = (time_diff > 0),
                      !.last_access_date = get_pakistan_time]
    ELSE [e EXCEPT !.days_remaining = NoDays, !.is_accessible = TRUE,
                   !.last_access_date = get_pakistan_time]

\* session.commit() of an Enrollment: the datetime columns lose tzinfo
Commit(e) == [e EXCEPT !.enroll_date = Stored(e.enroll_date),
                       !.expiration_date = Stored(e.expiration_date),
                       !.last_access_date = Stored(e.last_access_date)]

\* Enrollment(...) with the model's field defaults
Enrollment(id, u, c, st, acc, enroll, exp) ==
    [id |-> id, user_id |-> u, course_id |-> c, status |-> st,
     enroll_date |-> enroll, expiration_date |-> exp, is_accessible |-> acc,
     days_remaining |-> NoDays, last_access_date |-> None]

EnrollmentApplication(id, u, c) ==
    [id |-> id, user_id |-> u, course_id |-> c, status |-> "pending"]

PaymentProof(id, e) == [id |-> id, enrollment_id |-> e.id, status |-> "PENDING"]

\* ------------------------------------------------------------------- init
Init ==
    /\ now = 0
    /\ ticks = 0
    /\ nops = 0
    /\ nextId = 1
    /\ courses = Courses
    /\ videos = Courses
    /\ quizzes = Courses
    /\ applications = {}
    /\ enrollments = {}
    /\ payment_proofs = {}
    /\ notifications = {}
    /\ video_progress = {}
    /\ quiz_submissions = {}
    /\ course_progress = {}
    /\ last = Resp("none", "u1", "c1", 0, 0, "")
    /\ reqs = <<>>

Tick ==
    /\ ticks < MaxTicks
    /\ \E d \in TickSteps : now' = now + d
    /\ ticks' = ticks + 1
    /\ last' = Resp("tick", "u1", "c1", 0, 0, "")
    /\ UNCHANGED <<study, nops, nextId, db, reqs>>

\* ------------------------------------------------- enrollment_controller
existing_application_pending_only(u, c) ==
    {a \in AppsOf(u, c) : a.status = "pending"}

\* apply_for_enrollment, lines 97-102: any Application of the pair counts
existing_application(u, c) == AppsOf(u, c)

provisional_enrollment_accessible(id, u, c) ==
    Enrollment(id, u, c, "pending", TRUE, utcnow, None)

\* submit_payment_proof, lines 173-179: the Enrollment made when none exists
provisional_enrollment(id, u, c) ==
    Enrollment(id, u, c, "pending", FALSE, utcnow, None)

\* POST /enrollments/apply
apply_for_enrollment(u, c) ==
    /\ nops < MaxOps
    /\ IF existing_application(u, c) # {}
       THEN /\ last' = Resp("apply", u, c, 400, 0, "")
            /\ UNCHANGED <<nops, nextId, db>>
       ELSE /\ applications' = applications \cup {EnrollmentApplication(nextId, u, c)}
            /\ notifications' = notifications \cup
                   {Notification(nextId + 1, u, c, "new_enrollment_application")}
            /\ nextId' = nextId + 2
            /\ nops' = nops + 1
            /\ last' = Resp("apply", u, c, 200, 0, "")
            /\ UNCHANGED <<content, enrollments, payment_proofs, video_progress>>
    /\ UNCHANGED <<study, now, ticks, reqs>>

\* POST /enrollments/{course_id}/payment-proof
\* Every HTTPException raised inside the try block is caught by the
\* handler's own "except Exception" and answered as 500 after a rollback.
submit_payment_proof(u, c, commit_ok) ==
    /\ nops < MaxOps
    /\ LET approved == {a \in AppsOf(u, c) : a.status = "approved"}
           existing == EnrollmentsOf(u, c)
           enrollment == IF existing = {}
                         THEN provisional_enrollment(nextId, u, c)
                         ELSE First(existing)
       IN IF c \notin courses \/ approved = {} \/ ~commit_ok
          THEN /\ last' = Resp("submit_proof", u, c, 500, 0, "")
               /\ UNCHANGED <<nops, nextId, db>>
          ELSE /\ enrollments' = IF existing = {}
                                 THEN enrollments \cup {Commit(enrollment)}
                                 ELSE enrollments
               /\ payment_proofs' = payment_proofs \cup {PaymentProof(nextId + 1, enrollment)}
               /\ notifications' = notifications \cup
                      {Notification(nextId + 2, u, c, "payment_proof")}
               /\ nextId' = nextId + 3
               /\ nops' = nops + 1
               /\ last' = Resp("submit_proof", u, c, 200, 0, "")
               /\ UNCHANGED <<content, applications, video_progress>>
    /\ UNCHANGED <<study, now, ticks, reqs>>

\* sorted(enrollment.payment_proofs, key=submitted_at, reverse=True)[0]
Latest(rows) == CHOOSE r \in rows : \A s \in rows : r.id >= s.id

\* GET /enrollments/{course_id}/payment-proof/status
get_payment_proof_status(u, c) ==
    /\ LET existing == EnrollmentsOf(u, c)
       IN IF existing = {} \/ ProofsOf(First(existing)) = {}
          THEN last' = Resp("proof_status", u, c, 404, 0, "")
          ELSE last' = Resp("proof_status", u, c, 200, 0,
                            Latest(ProofsOf(First(existing))).status)
    /\ UNCHANGED <<study, now, ticks, nops, nextId, db, reqs>>

\* ------------------------------------------------------ admin_controller
creates_enrollment_on_any_decision(status, old_status, existing_enrollment) ==
    existing_enrollment = {}

creates_enrollment_unchecked(status, old_status, existing_enrollment) ==
    status = "approved"

\* update_enrollment_application_status, lines 601-610: an Enrollment is made
\* on a first approval, and only if the pair has none
creates_enrollment(status, old_status, existing_enrollment) ==
    /\ status = "approved"
    /\ old_status # "approved"
    /\ existing_enrollment = {}

\* update_enrollment_application_status, lines 612-620
approved_enrollment(id, u, c) ==
    Enrollment(id, u, c, "active", TRUE, utcnow,
               AddHours(utcnow, DaysPerYear * HoursPerDay))

\* PUT /enrollment-applications/{application_id}/status
update_enrollment_application_status(application_id, status) ==
    /\ nops < MaxOps
    /\ LET found == {a \in applications : a.id = application_id}
       IN IF found = {}
          THEN /\ last' = Resp("update_status", "u1", "c1", 404, application_id, status)
               /\ UNCHANGED <<nops, nextId, db>>
          ELSE LET application == First(found)
                   old_status == application.status
                   existing_enrollment == EnrollmentsOf(application.user_id, application.course_id)
                   new_enrollment ==
                       approved_enrollment(nextId, application.user_id,
                                           application.course_id)
               IN /\ applications' = (applications \ {application}) \cup
                                        {[application EXCEPT !.status = status]}
                  /\ IF creates_enrollment(status, old_status, existing_enrollment)
                     THEN /\ enrollments' = enrollments \cup {Commit(new_enrollment)}
                          /\ nextId' = nextId + 1
                     ELSE UNCHANGED <<enrollments, nextId>>
                  /\ nops' = nops + 1
                  /\ last' = Resp("update_status", application.user_id,
                                  application.course_id, 200, application_id, status)
                  /\ UNCHANGED <<content, payment_proofs, notifications, video_progress>>
    /\ UNCHANGED <<study, now, ticks, reqs>>

\* PUT /enrollments/approve: the Enrollment is committed first (line 1015),
\* the Notification in a second transaction (line 1025) that may fail
approve_enrollment_by_user(u, c, duration_months, notified) ==
    /\ nops < MaxOps
    /\ IF EnrollmentsOf(u, c) = {}
       THEN /\ last' = Resp("approve", u, c, 404, duration_months, "")
            /\ UNCHANGED <<nops, nextId, db>>
       ELSE LET enrollment == First(EnrollmentsOf(u, c))
                e1 == [enrollment EXCEPT !.status = "approved", !.is_accessible = TRUE]
                e2 == IF e1.enroll_date.none
                      THEN [e1 EXCEPT !.enroll_date = get_pakistan_time]
                      ELSE e1
                e3 == [e2 EXCEPT !.expiration_date =
                          AddHours(e2.enroll_date,
                                   DaysPerMonth * duration_months * HoursPerDay)]
                e4 == update_expiration_status(e3)
            IN /\ enrollments' = (enrollments \ {enrollment}) \cup {Commit(e4)}
               /\ notifications' = IF notified
                                    THEN notifications \cup
                                         {Notification(nextId, u, c, "enrollment_approved")}
                                    ELSE notifications
               /\ nextId' = IF notified THEN nextId + 1 ELSE nextId
               /\ nops' = nops + 1
               /\ last' = Resp("approve", u, c, IF notified THEN 200 ELSE 500,
                               duration_months, "")
               /\ UNCHANGED <<content, applications, payment_proofs, video_progress>>
    /\ UNCHANGED <<study, now, ticks, reqs>>

\* get_pakistan_time().replace(hour=0, minute=0, second=0, microsecond=0)
today == DT((get_pakistan_time.wall \div HoursPerDay) * HoursPerDay, TRUE)

\* PUT /enrollments/test-expiration
test_enrollment_expiration(u, c) ==
    /\ nops < MaxOps
    /\ IF EnrollmentsOf(u, c) = {}
       THEN /\ last' = Resp("test_expiration", u, c, 404, 0, "")
            /\ UNCHANGED <<nops, nextId, db>>
       ELSE LET enrollment == First(EnrollmentsOf(u, c))
                e1 == update_expiration_status(
                          [enrollment EXCEPT !.expiration_date = today])
            IN /\ enrollments' = (enrollments \ {enrollment}) \cup {Commit(e1)}
               /\ notifications' = notifications \cup
                      {Notification(nextId, u, c, "enrollment_expired")}
               /\ nextId' = nextId + 1
               /\ nops' = nops + 1
               /\ last' = Resp("test_expiration", u, c, 200, 0, "")
               /\ UNCHANGED <<content, applications, payment_proofs, video_progress>>
    /\ UNCHANGED <<study, now, ticks, reqs>>

\* DELETE /courses/{course_id}: the related rows are deleted and committed
\* first, the course itself in a second transaction that may fail
delete_course(c, course_deleted) ==
    /\ nops < MaxOps
    /\ IF c \notin courses
       THEN /\ last' = Resp("delete_course", "u1", c, 404, 0, "")
            /\ UNCHANGED <<nops, db, quiz_submissions>>
       ELSE LET gone == {e \in enrollments : e.course_id = c}
            IN /\ enrollments' = enrollments \ gone
               /\ payment_proofs' = {p \in payment_proofs :
                                        \A e \in gone : p.enrollment_id # e.id}
               /\ videos' = videos \ {c}
               /\ video_progress' = {p \in video_progress : p.video_id # c}
               /\ quizzes' = quizzes \ {c}
               /\ quiz_submissions' = {q \in quiz_submissions : q.quiz_id # c}
               /\ courses' = IF course_deleted THEN courses \ {c} ELSE courses
               /\ nops' = nops + 1
               /\ last' = Resp("delete_course", "u1", c,
                               IF course_deleted THEN 200 ELSE 500, 0, "")
               /\ UNCHANGED <<applications, notifications>>
    /\ UNCHANGED <<course_progress, now, ticks, nextId, reqs>>

\* ------------------------------------------------- enrollment gates
\* quiz_controller._ensure_enrollment: the stored flag decides
quiz_ensure_enrollment(u, c) ==
    /\ LET rows == {e \in EnrollmentsOf(u, c) :
                       e.status = "approved" /\ e.is_accessible}
       IN last' = Resp("quiz", u, c, IF rows = {} THEN 403 ELSE 200, 0, "")
    /\ UNCHANGED <<study, now, ticks, nops, nextId, db, reqs>>

\* assignment_controller._ensure_enrollment: the stored flag decides
assignment_ensure_enrollment(u, c) ==
    /\ LET rows == {e \in EnrollmentsOf(u, c) :
                       e.status = "approved" /\ e.is_accessible}
       IN last' = Resp("assignment", u, c, IF rows = {} THEN 403 ELSE 200, 0, "")
    /\ UNCHANGED <<study, now, ticks, nops, nextId, db, reqs>>

\* GET /my-courses: every approved Enrollment of the user is re-evaluated in
\* the session and the course is listed when it evaluates as accessible; the
\* handler never commits.  arg is the number of courses listed.
get_my_courses(u) ==
    /\ LET rows == {e \in enrollments : e.user_id = u /\ e.status = "approved"}
           listed == {e.course_id : e \in {r \in rows :
                          update_expiration_status(r).is_accessible}} \cap courses
       IN last' = Resp("my_courses", u, "c1", 200, Cardinality(listed), "")
    /\ UNCHANGED <<study, now, ticks, nops, nextId, db, reqs>>

stream_video_optimized_committing(u, c) ==
    /\ LET rows == {e \in EnrollmentsOf(u, c) : e.status = "approved"}
           code == IF c \notin videos THEN 404
                   ELSE IF rows = {} THEN 403
                   ELSE IF ~update_expiration_status(First(rows)).is_accessible
                        THEN 403 ELSE 200
       IN /\ last' = Resp("stream", u, c, code, 0, "")
          /\ enrollments' = IF c \in videos /\ rows # {}
                            THEN (enrollments \ {First(rows)}) \cup
                                 {Commit(update_expiration_status(First(rows)))}
                            ELSE enrollments
    /\ UNCHANGED <<study, now, ticks, nops, nextId, content, applications,
                   payment_proofs, notifications, video_progress, reqs>>

\* GET /videos/{video_id}/stream, up to the enrollment decision; the
\* recomputed row is never committed
stream_video_optimized(u, c) ==
    /\ LET rows == {e \in EnrollmentsOf(u, c) : e.status = "approved"}
           code == IF c \notin videos THEN 404
                   ELSE IF rows = {} THEN 403
                   ELSE IF ~update_expiration_status(First(rows)).is_accessible
                        THEN 403 ELSE 200
       IN last' = Resp("stream", u, c, code, 0, "")
    /\ UNCHANGED <<study, now, ticks, nops, nextId, db, reqs>>

\* GET /my-courses/{course_id}/videos-with-checkpoint: every HTTPException
\* of the try block is answered as 500 by its "except Exception"
get_course_videos_with_checkpoint(u, c) ==
    /\ LET rows == {e \in EnrollmentsOf(u, c) : e.status = "approved"}
           expired(e) == /\ ~e.expiration_date.none
                         /\ e.expiration_date.wall < get_pakistan_time.wall
           code == IF rows = {} THEN 500
                   ELSE IF expired(First(rows)) THEN 500
                   ELSE IF ~First(rows).is_accessible THEN 500
                   ELSE 200
       IN last' = Resp("course_videos", u, c, code, 0, "")
    /\ UNCHANGED <<study, now, ticks, nops, nextId, db, reqs>>

\* POST /videos/{video_id}/complete
mark_video_completed(u, c) ==
    /\ LET current_time == utcnow
           rows == {e \in EnrollmentsOf(u, c) :
                       /\ e.status = "approved"
                       /\ e.is_accessible
                       /\ \/ e.expiration_date.none
                          \/ e.expiration_date.wall > current_time.wall}
           progress == {p \in video_progress : p.user_id = u /\ p.video_id = c}
       IN IF c \notin videos \/ rows = {}
          THEN /\ last' = Resp("mark_completed", u, c,
                                IF c \notin videos THEN 404 ELSE 403, 0, "")
               /\ UNCHANGED video_progress
          ELSE /\ video_progress' =
                     IF progress # {}
                     THEN (video_progress \ progress) \cup
                          {[p EXCEPT !.completed = ~p.completed] : p \in progress}
                     ELSE video_progress \cup
                          {[user_id |-> u, video_id |-> c, completed |-> TRUE]}
               /\ last' = Resp("mark_completed", u, c, 200, 0, "")
    /\ UNCHANGED <<study, now, ticks, nops, nextId, content, applications, enrollments,
                   payment_proofs, notifications, reqs>>

\* ------------------------------------------------------ quiz_controller
QuizSubmissionsOf(u, c) ==
    {q \in quiz_submissions : q.student_id = u /\ q.quiz_id = c}

\* QuizSubmission(...) with its Answers; the quiz has one question
QuizSubmission(u, c, payload) ==
    [student_id |-> u, quiz_id |-> c,
     score |-> IF payload = "right_option" THEN 1 ELSE 0, answers |-> 1]

\* submit_quiz: the student's previous submission is deleted and committed
\* before the quiz and the payload are looked at; a refusal after that point
\* drops only the uncommitted new rows
submit_quiz(u, c, payload) ==
    /\ LET rows == {e \in EnrollmentsOf(u, c) :
                       e.status = "approved" /\ e.is_accessible}
           existing_submission == QuizSubmissionsOf(u, c)
           code == IF rows = {} THEN 403
                   ELSE IF c \notin quizzes THEN 404
                   ELSE IF payload \in {"no_answers", "foreign_question"} THEN 400
                   ELSE 200
       IN /\ quiz_submissions' =
                 IF code = 403 THEN quiz_submissions
                 ELSE IF code = 200
                      THEN (quiz_submissions \ existing_submission) \cup
                           {QuizSubmission(u, c, payload)}
                      ELSE quiz_submissions \ existing_submission
          /\ last' = Resp("submit_quiz", u, c, code, 0, payload)
    /\ UNCHANGED <<course_progress, now, ticks, nops, nextId, db, reqs>>

\* ------------------------------------------- student_dashboard_router
\* int((completed / total) * 100) if total > 0 else 0
progress_of(completed, total) ==
    IF total > 0 THEN (completed * Percent) \div total ELSE 0

CourseProgress(u, c) ==
    [user_id |-> u, course_id |-> c, completed |-> TRUE,
     progress_percentage |-> Percent]

\* GET /courses/{course_id}/analytics (_get_analytics_for_course); the
\* course has no assignments.  arg is the progress reported.
get_single_course_analytics(u, c) ==
    /\ LET current_time == utcnow
           rows == {e \in EnrollmentsOf(u, c) :
                       /\ e.status = "approved"
                       /\ e.is_accessible
                       /\ \/ e.expiration_date.none
                          \/ e.expiration_date.wall > current_time.wall}
           videos_watched == {p \in video_progress :
                                 /\ p.video_id = c /\ p.video_id \in videos
                                 /\ p.user_id = u /\ p.completed}
           quizzes_attempted == {q \in QuizSubmissionsOf(u, c) : q.quiz_id \in quizzes}
           completed == Cardinality(videos_watched) + Cardinality(quizzes_attempted)
           total == Cardinality({c} \cap videos) + Cardinality({c} \cap quizzes)
           progress == progress_of(completed, total)
           found == {r \in course_progress : r.user_id = u /\ r.course_id = c}
       IN IF rows = {} \/ c \notin courses
          THEN /\ last' = Resp("analytics", u, c, 404, 0, "")
               /\ UNCHANGED course_progress
          ELSE /\ course_progress' =
                     IF progress = Percent
                     THEN IF found = {}
                          THEN course_progress \cup {CourseProgress(u, c)}
                          ELSE {IF r \in found /\ ~r.completed
                                THEN CourseProgress(u, c) ELSE r : r \in course_progress}
                     ELSE {IF r \in found /\ r.progress_percentage # progress
                           THEN [r EXCEPT !.progress_percentage = progress]
                           ELSE r : r \in course_progress}
               /\ last' = Resp("analytics", u, c, 200, progress, "")
    /\ UNCHANGED <<quiz_submissions, now, ticks, nops, nextId, db, reqs>>

Next ==
    \/ Tick
    \/ \E u \in Users, c \in Courses : quiz_ensure_enrollment(u, c)
    \/ \E u \in Users, c \in Courses : assignment_ensure_enrollment(u, c)
    \/ \E u \in Users, c \in Courses : stream_video_optimized(u, c)
    \/ \E u \in Users : get_my_courses(u)
    \/ \E u \in Users, c \in Courses : get_course_videos_with_checkpoint(u, c)
    \/ \E u \in Users, c \in Courses : mark_video_completed(u, c)
    \/ \E u \in Users, c \in Courses : apply_for_enrollment(u, c)
    \/ \E u \in Users, c \in Courses, ok \in BOOLEAN : submit_payment_proof(u, c, ok)
    \/ \E u \in Users, c \in Courses : get_payment_proof_status(u, c)
    \/ \E id \in 1..nextId, st \in Statuses : update_enrollment_application_status(id, st)
    \/ \E u \in Users, c \in Courses, d \in Durations, ok \in BOOLEAN :
           approve_enrollment_by_user(u, c, d, ok)
    \/ \E u \in Users, c \in Courses : test_enrollment_expiration(u, c)
    \/ \E c \in Courses, ok \in BOOLEAN : delete_course(c, ok)

\* ---------------------------------------------- interleaved requests
\* A request that has run its existence lookup and not yet its insert and
\* commit.  Neither table has a unique constraint on (user_id, course_id),
\* so the commit of a row never fails on a duplicate.
Req(op, u, c, aid, st, create) ==
    [op |-> op, user |-> u, course |-> c, aid |-> aid, st |-> st, create |-> create]

RequestIds == 1..MaxReqs

\* the slot a new request takes: the lowest one not in flight (0 if none)
FreeRid ==
    IF RequestIds \ DOMAIN reqs = {} THEN 0
    ELSE CHOOSE r \in RequestIds \ DOMAIN reqs :
             \A q \in RequestIds \ DOMAIN reqs : r <= q

\* apply_for_enrollment, lines 97-105: the lookup
apply_lookup(rid, u, c) ==
    /\ nops < MaxOps
    /\ rid = FreeRid
    /\ IF existing_application(u, c) # {}
       THEN /\ last' = Resp("apply", u, c, 400, 0, "")
            /\ UNCHANGED reqs
       ELSE /\ reqs' = [r \in DOMAIN reqs \cup {rid} |->
                           IF r = rid THEN Req("apply", u, c, 0, "", TRUE) ELSE reqs[r]]
            /\ UNCHANGED last
    /\ UNCHANGED <<study, now, ticks, nops, nextId, db>>

\* apply_for_enrollment, lines 107-133: insert and commit
apply_commit(rid) ==
    /\ rid \in DOMAIN reqs
    /\ reqs[rid].op = "apply"
    /\ LET r == reqs[rid]
       IN /\ applications' = applications \cup
                                {EnrollmentApplication(nextId, r.user, r.course)}
          /\ notifications' = notifications \cup
                 {Notification(nextId + 1, r.user, r.course, "new_enrollment_application")}
          /\ last' = Resp("apply", r.user, r.course, 200, 0, "")
    /\ nextId' = nextId + 2
    /\ nops' = nops + 1
    /\ reqs' = [r \in DOMAIN reqs \ {rid} |-> reqs[r]]
    /\ UNCHANGED <<study, now, ticks, content, enrollments, payment_proofs, video_progress>>

\* update_enrollment_application_status, lines 592-610: load and lookup
update_status_lookup(rid, application_id, status) ==
    /\ nops < MaxOps
    /\ rid = FreeRid
    /\ LET found == {a \in applications : a.id = application_id}
       IN IF found = {}
          THEN /\ last' = Resp("update_status", "u1", "c1", 404, application_id, status)
               /\ UNCHANGED reqs
          ELSE LET application == First(found)
                   create == creates_enrollment(
                                 status, application.status,
                                 EnrollmentsOf(application.user_id,
                                               application.course_id))
               IN /\ reqs' = [r \in DOMAIN reqs \cup {rid} |->
                                 IF r = rid
                                 THEN Req("update_status", application.user_id,
                                          application.course_id, application_id,
                                          status, create)
                                 ELSE reqs[r]]
                  /\ UNCHANGED last
    /\ UNCHANGED <<study, now, ticks, nops, nextId, db>>

\* update_enrollment_application_status, lines 612-626: insert and commit
update_status_commit(rid) ==
    /\ rid \in DOMAIN reqs
    /\ reqs[rid].op = "update_status"
    /\ LET r == reqs[rid]
           new_enrollment == approved_enrollment(nextId, r.user, r.course)
       IN /\ applications' = {IF a.id = r.aid THEN [a EXCEPT !.status = r.st] ELSE a :
                                 a \in applications}
          /\ IF r.create
             THEN /\ enrollments' = enrollments \cup {Commit(new_enrollment)}
                  /\ nextId' = nextId + 1
             ELSE UNCHANGED <<enrollments, nextId>>
          /\ last' = Resp("update_status", r.user, r.course, 200, r.aid, r.st)
    /\ nops' = nops + 1
    /\ reqs' = [r \in DOMAIN reqs \ {rid} |-> reqs[r]]
    /\ UNCHANGED <<study, now, ticks, content, payment_proofs, notifications, video_progress>>

\* submit_payment_proof, lines 147-171: the lookups
submit_proof_lookup(rid, u, c) ==
    /\ nops < MaxOps
    /\ rid = FreeRid
    /\ LET approved == {a \in AppsOf(u, c) : a.status = "approved"}
           existing == EnrollmentsOf(u, c)
       IN IF c \notin courses \/ approved = {}
          THEN /\ last' = Resp("submit_proof", u, c, 500, 0, "")
               /\ UNCHANGED reqs
          ELSE /\ reqs' = [r \in DOMAIN reqs \cup {rid} |->
                              IF r = rid
                              THEN Req("submit_proof", u, c,
                                       IF existing = {} THEN 0 ELSE First(existing).id,
                                       "", existing = {})
                              ELSE reqs[r]]
               /\ UNCHANGED last
    /\ UNCHANGED <<study, now, ticks, nops, nextId, db>>

\* submit_payment_proof, lines 173-207: inserts and commit
submit_proof_commit(rid) ==
    /\ rid \in DOMAIN reqs
    /\ reqs[rid].op = "submit_proof"
    /\ LET r == reqs[rid]
           created == provisional_enrollment(nextId, r.user, r.course)
           eid == IF r.create THEN nextId ELSE r.aid
       IN /\ enrollments' = IF r.create THEN enrollments \cup {Commit(created)}
                                        ELSE enrollments
          /\ payment_proofs' = payment_proofs \cup
                 {[id |-> nextId + 1, enrollment_id |-> eid, status |-> "PENDING"]}
          /\ notifications' = notifications \cup
                 {Notification(nextId + 2, r.user, r.course, "payment_proof")}
          /\ last' = Resp("submit_proof", r.user, r.course, 200, 0, "")
    /\ nextId' = nextId + 3
    /\ nops' = nops + 1
    /\ reqs' = [r \in DOMAIN reqs \ {rid} |-> reqs[r]]
    /\ UNCHANGED <<study, now, ticks, content, applications, video_progress>>

NextConc ==
    \/ \E u \in Users, c \in Courses : apply_for_enrollment(u, c)
    \/ \E id \in 1..nextId, st \in Statuses : update_enrollment_application_status(id, st)
    \/ \E c \in Courses, ok \in BOOLEAN : delete_course(c, ok)
    \/ \E rid \in RequestIds, u \in Users, c \in Courses : apply_lookup(rid, u, c)
    \/ \E rid \in RequestIds : apply_commit(rid)
    \/ \E rid \in RequestIds, id \in 1..nextId, st \in Statuses :
          update_status_lookup(rid, id, st)
    \/ \E rid \in RequestIds : update_status_commit(rid)
    \/ \E rid \in RequestIds, u \in Users, c \in Courses : submit_proof_lookup(rid, u, c)
    \/ \E rid \in RequestIds : submit_proof_commit(rid)

SpecConc == Init /\ [][NextConc]_vars

Spec == Init /\ [][Next]_vars

\* ------------------------------------------------- studying a course
\* the requests of a student who is admitted to a course and works on it
NextStudy ==
    \/ \E u \in Users, c \in Courses : apply_for_enrollment(u, c)
    \/ \E id \in 1..nextId, st \in Statuses : update_enrollment_application_status(id, st)
    \/ \E u \in Users, c \in Courses, d \in Durations, ok \in BOOLEAN :
           approve_enrollment_by_user(u, c, d, ok)
    \/ \E u \in Users, c \in Courses : mark_video_completed(u, c)
    \/ \E u \in Users, c \in Courses, p \in Payloads : submit_quiz(u, c, p)
    \/ \E u \in Users, c \in Courses : get_single_course_analytics(u, c)

SpecStudy == Init /\ [][NextStudy]_vars

\* ===================================================================
\* Claims
\* ===================================================================
Pairs == Users \X Courses

GateOps == {"quiz", "assignment", "stream", "course_videos", "mark_completed"}

\* The transition just taken served a request of kind op (every action
\* writes last; a repeated identical answer changes something else or stutters)
Served(op) == last'.op = op /\ vars' # vars

\* C1: after any sequence of whole (non-interleaved) apply, status-update,
\* payment-proof and payment-approval requests, every (user, course) pair has
\* at most one Enrollment row.
C1_OneEnrollmentPerPair ==
    \A pr \in Pairs : Cardinality(EnrollmentsOf(pr[1], pr[2])) <= 1

\* C1 witness: one Application, approved, a proof submitted, then the same
\* Application approved once more, and still an Enrollment of the pair.
C1_ApprovedTwice ==
    /\ last.op = "update_status" /\ last.st = "approved" /\ last.code = 200
    /\ nops = 4
    /\ Cardinality(applications) = 1
    /\ Cardinality(payment_proofs) = 1
    /\ Cardinality(notifications) = 2
    /\ courses = Courses
    /\ EnrollmentsOf(last.user, last.course) # {}

\* C2: apply_for_enrollment for a pair that already has an Application, of
\* any status, answers 400 and adds neither an Application nor a
\* Notification; exactly one Application of the pair exists afterwards.
C2_DuplicateApplyRefused ==
    [][(Served("apply") /\ AppsOf(last'.user, last'.course) # {}) =>
          /\ last'.code = 400
          /\ applications' = applications
          /\ notifications' = notifications
          /\ Cardinality({a \in applications' :
                 a.user_id = last'.user /\ a.course_id = last'.course}) = 1]_vars

\* C2 witness: an apply answered 400 while the pair's Application is rejected.
C2_ReapplyAfterRejection ==
    /\ last.op = "apply" /\ last.code = 400
    /\ \E a \in AppsOf(last.user, last.course) : a.status = "rejected"

\* C3 (as claimed): when apply requests for one pair interleave, at most one
\* Application row exists for the pair once none of them is in flight.
C3_OneApplicationAfterRace ==
    \A pr \in Pairs :
        (\A rid \in DOMAIN reqs :
            ~(reqs[rid].op = "apply" /\ reqs[rid].user = pr[1] /\ reqs[rid].course = pr[2]))
        => Cardinality(AppsOf(pr[1], pr[2])) <= 1

\* C4 (as claimed): when requests that may create an Enrollment for one pair
\* interleave, at most one Enrollment row exists for the pair once none of
\* them is in flight.
C4_OneEnrollmentAfterRace ==
    \A pr \in Pairs :
        (\A rid \in DOMAIN reqs :
            ~(reqs[rid].user = pr[1] /\ reqs[rid].course = pr[2]))
        => Cardinality(EnrollmentsOf(pr[1], pr[2])) <= 1

\* the Enrollment row of the pair is past its expiration_date, whichever
\* clock wrote the stored wall-clock reading
ExpiredRow(u, c) ==
    \E e \in EnrollmentsOf(u, c) :
        ~e.expiration_date.none /\ e.expiration_date.wall <= now

\* C5 (as claimed): no access-gated operation admits a request for an
\* Enrollment whose expiration_date is at or before the current instant.
C5_NoAccessAfterExpiry ==
    (last.op \in GateOps /\ last.code = 200) => ~ExpiredRow(last.user, last.course)

\* C6: the access evaluation of an Enrollment with expiration_date T at the
\* instant now yields is_accessible = TRUE exactly when now < T (the stream
\* handler admits the request exactly then).
C6_AccessibleIffBeforeExpiry ==
    LET rows == {e \in EnrollmentsOf(last.user, last.course) : e.status = "approved"}
    IN (/\ last.op = "stream"
        /\ last.course \in videos
        /\ rows # {}
        /\ ~First(rows).expiration_date.none)
       => (last.code = 200 <=> now < Instant(First(rows).expiration_date))

\* C6 witness: a stream request at exactly the expiration instant, refused.
C6_StreamAtExpiry ==
    /\ last.op = "stream" /\ last.code = 403
    /\ \E e \in EnrollmentsOf(last.user, last.course) :
          /\ e.status = "approved"
          /\ ~e.expiration_date.none
          /\ Instant(e.expiration_date) = now

\* C7 (as claimed): the Enrollment created when an admin approves a pending
\* Application has status "pending" and is_accessible = FALSE.
C7_ApprovalGrantsNoAccess ==
    (last.op = "update_status" /\ last.st = "approved" /\ last.code = 200) =>
        \A e \in EnrollmentsOf(last.user, last.course) :
            e.id = nextId - 1 => (e.status = "pending" /\ ~e.is_accessible)

\* C8 (as claimed): submit_payment_proof without an Approved Application is
\* answered with the InvalidState status (403 or 400).
C8_ProofWithoutApprovalIs403 ==
    (/\ last.op = "submit_proof"
     /\ {a \in AppsOf(last.user, last.course) : a.status = "approved"} = {})
    => last.code \in {400, 403}

\* C9: a successful submit_payment_proof adds exactly one PaymentProof, with
\* status PENDING, that belongs to the Enrollment of the pair; an Enrollment
\* is created (pending, not accessible) only if the pair had none, and an
\* existing one is left as it was.
C9_ProofBelongsToEnrollment ==
    [][(Served("submit_proof") /\ last'.code = 200) =>
          LET u == last'.user
              c == last'.course
              before == EnrollmentsOf(u, c)
              after == {e \in enrollments' : e.user_id = u /\ e.course_id = c}
              added == payment_proofs' \ payment_proofs
          IN /\ payment_proofs \subseteq payment_proofs'
             /\ Cardinality(added) = 1
             /\ \A p \in added :
                   /\ p.status = "PENDING"
                   /\ \E e \in after : e.id = p.enrollment_id
             /\ Cardinality(after) = 1
             /\ IF before = {}
                THEN /\ \A e \in after : e.status = "pending" /\ ~e.is_accessible
                     /\ enrollments' \ after = enrollments
                ELSE enrollments' = enrollments]_vars

\* C9 witness: a proof was accepted for a pair whose Enrollment the
\* submission itself created.
C9_ProofCreatedEnrollment ==
    /\ last.op = "submit_proof" /\ last.code = 200
    /\ \E e \in EnrollmentsOf(last.user, last.course) :
          /\ e.status = "pending"
          /\ \E p \in payment_proofs : p.enrollment_id = e.id

\* C10 (as claimed): after approve_enrollment_by_user with duration_months
\* the Enrollment has status "approved" and
\* expiration_date = enroll_date + 30 * duration_months days.
C10_ExpirationIsEnrollPlusDuration ==
    (last.op = "approve" /\ last.code = 200) =>
        \A e \in EnrollmentsOf(last.user, last.course) :
            /\ e.status = "approved"
            /\ ~e.expiration_date.none
            /\ e.expiration_date.wall =
                   e.enroll_date.wall + DaysPerMonth * last.arg * HoursPerDay

\* C11 (as claimed): directly after a successful approve_enrollment_by_user
\* with a positive duration, whatever the Enrollment's enroll_date, the
\* Enrollment's is_accessible is TRUE and the access evaluation made at that
\* instant admits the student.
C11_FreshGrantAccessible ==
    (last.op = "approve" /\ last.code = 200 /\ last.arg > 0) =>
        \A e \in EnrollmentsOf(last.user, last.course) :
            e.is_accessible /\ update_expiration_status(e).is_accessible

\* the expiration_date of the pair's Enrollment row before and after a step
ExpirationBefore(u, c) == First(EnrollmentsOf(u, c)).expiration_date

ExpirationAfter(u, c) ==
    First({e \in enrollments' : e.user_id = u /\ e.course_id = c}).expiration_date

\* C12 (as claimed): approve_enrollment_by_user on an Enrollment that is
\* already approved leaves its expiration_date as it was, whatever duration
\* the repeated call carries.
C12_ReapprovalKeepsExpiration ==
    [][(/\ Served("approve")
        /\ last'.code = 200
        /\ EnrollmentsOf(last'.user, last'.course) # {}
        /\ First(EnrollmentsOf(last'.user, last'.course)).status = "approved")
       => ExpirationAfter(last'.user, last'.course) =
              ExpirationBefore(last'.user, last'.course)]_vars

\* C13 (as claimed): approve_enrollment_by_user with a positive duration on
\* an approved Enrollment that has not expired leaves it with an
\* expiration_date not earlier than the one it had.
C13_RenewalNeverShortens ==
    [][(/\ Served("approve")
        /\ last'.code = 200
        /\ last'.arg > 0
        /\ EnrollmentsOf(last'.user, last'.course) # {}
        /\ LET e == First(EnrollmentsOf(last'.user, last'.course))
           IN /\ e.status = "approved"
              /\ e.is_accessible
              /\ ~e.expiration_date.none
              /\ e.expiration_date.wall > now + PKT_OFFSET)
       => ExpirationAfter(last'.user, last'.course).wall >=
              ExpirationBefore(last'.user, last'.course).wall]_vars

\* C14 (as claimed): an Application whose status is approved or rejected keeps
\* that status through every later step.
C14_DecisionIsTerminal ==
    [][\A a \in applications :
          a.status \in {"approved", "rejected"} =>
              \A b \in applications' : b.id = a.id => b.status = a.status]_vars

\* the Notification rows a step adds for user u
AddedFor(u) == {n \in notifications' \ notifications : n.user_id = u}

\* C15 (as claimed): an update_enrollment_application_status call that moves
\* an Application to approved adds exactly one Notification for the
\* applicant, and one that finds it approved already adds none.
C15_OneApprovalNotification ==
    [][(Served("update_status") /\ last'.code = 200 /\ last'.st = "approved") =>
          LET before == {a \in applications : a.id = last'.arg}
          IN IF \E a \in before : a.status = "approved"
             THEN AddedFor(last'.user) = {}
             ELSE Cardinality(AddedFor(last'.user)) = 1]_vars

\* the step makes an accessible Enrollment or flips the is_accessible of one
AccessChanged(u) ==
    \E e \in enrollments' :
        /\ e.user_id = u
        /\ IF \E d \in enrollments : d.id = e.id
           THEN \E d \in enrollments : d.id = e.id /\ d.is_accessible # e.is_accessible
           ELSE e.is_accessible

\* C16 (as claimed): a step that changes the accessibility of an Enrollment
\* of user u adds exactly one Notification for u.
C16_AccessChangeNotifiesOnce ==
    [][\A u \in Users : AccessChanged(u) => Cardinality(AddedFor(u)) = 1]_vars

\* C17 (as claimed): an apply_for_enrollment, submit_payment_proof or
\* approve_enrollment_by_user call that persists a change of an Application,
\* Enrollment or PaymentProof row persists its Notification with it.
C17_MutationWithNotification ==
    [][(/\ \E op \in {"apply", "submit_proof", "approve"} : Served(op)
        /\ <<applications, enrollments, payment_proofs>>' #
               <<applications, enrollments, payment_proofs>>)
       => AddedFor(last'.user) # {}]_vars

\* C18 (as claimed): stream_video_optimized and
\* get_course_videos_with_checkpoint answer 403 when the user has no
\* Enrollment row for the course or the row evaluates as inaccessible.
C18_DenialIs403 ==
    (/\ last.op \in {"stream", "course_videos"}
     /\ last.course \in videos
     /\ \A e \in EnrollmentsOf(last.user, last.course) :
            ~update_expiration_status(e).is_accessible)
    => last.code = 403

\* C19 (as claimed): once the payment of a pair has been approved after its
\* latest PaymentProof was submitted, get_payment_proof_status reports that
\* proof as APPROVED.
C19_ApprovedProofReported ==
    (/\ last.op = "proof_status"
     /\ last.code = 200
     /\ \E n \in notifications :
            /\ n.event_type = "enrollment_approved"
            /\ n.user_id = last.user /\ n.course_id = last.course
            /\ n.id > Latest(ProofsOf(First(EnrollmentsOf(last.user, last.course)))).id)
    => last.st = "APPROVED"

\* C20 (as claimed): no step removes a PaymentProof row.
C20_ProofsAreKept ==
    [][\A p \in payment_proofs : \E q \in payment_proofs' : q.id = p.id]_vars

\* C21: for an Enrollment whose expiration_date is None the access evaluation
\* yields is_accessible = TRUE and days_remaining = None, at every instant.
C21_NoExpiryIsUnlimited ==
    \A e \in enrollments :
        e.expiration_date.none =>
            /\ update_expiration_status(e).is_accessible
            /\ update_expiration_status(e).days_remaining = NoDays

\* C21 witness: an Enrollment without expiration_date, evaluated after the
\* clock has moved past the instant it was created.
C21_OpenEndedRowLater ==
    \E e \in enrollments :
        /\ e.expiration_date.none
        /\ ~e.is_accessible
        /\ now > e.enroll_date.wall

\* C22: for an Enrollment with an expiration_date the access evaluation sets
\* days_remaining to the floor of (expiration_date - now) in days: negative
\* whenever the expiration lies before now, never clamped to 0.
C22_DaysRemainingIsFloor ==
    \A e \in enrollments :
        ~e.expiration_date.none =>
            LET d == update_expiration_status(e).days_remaining
                diff == Instant(e.expiration_date) - now
            IN /\ ~d.none
               /\ d.val * HoursPerDay <= diff
               /\ diff < (d.val + 1) * HoursPerDay
               /\ (diff < 0 => d.val < 0)

\* C22 witness: a stream request refused for an Enrollment that expired less
\* than a day ago, whose evaluation gives days_remaining = -1.
C22_ExpiredWithinTheDay ==
    /\ last.op = "stream" /\ last.code = 403
    /\ \E e \in EnrollmentsOf(last.user, last.course) :
          /\ e.status = "approved"
          /\ ~e.expiration_date.none
          /\ Instant(e.expiration_date) < now
          /\ now - Instant(e.expiration_date) < HoursPerDay
          /\ update_expiration_status(e).days_remaining = Days(-1)

C24_OneClockPerEnrollment ==
    \A e \in enrollments :
        ~e.expiration_date.none => e.expiration_date.zone = e.enroll_date.zone

\* C25 (as claimed): every access-gated operation allows the request exactly
\* when the access evaluation of the pair's approved Enrollment, made at the
\* same instant, says accessible.
C25_GatesAgreeWithEvaluation ==
    (/\ last.op \in GateOps \cup {"my_courses"}
     /\ last.course \in courses
     /\ last.course \in videos)
    => LET rows == {e \in EnrollmentsOf(last.user, last.course) :
                       e.status = "approved"}
           allowed == IF last.op = "my_courses" THEN last.arg > 0
                      ELSE last.code = 200
       IN allowed <=>
          (rows # {} /\ update_expiration_status(First(rows)).is_accessible)

\* C26 (as claimed): an Enrollment whose stored is_accessible is TRUE has
\* status "approved".
C26_AccessibleIsApproved ==
    \A e \in enrollments : e.is_accessible => e.status = "approved"

\* C27: a step adds an Enrollment only for a pair that has an approved
\* Application at that moment, apply_for_enrollment adds none, and every
\* Enrollment's pair has an Application.
C27_EnrollmentNeedsApproval ==
    [][/\ \A e \in enrollments' :
            (\A d \in enrollments : d.id # e.id) =>
                \E a \in applications' :
                    /\ a.user_id = e.user_id /\ a.course_id = e.course_id
                    /\ a.status = "approved"
       /\ Served("apply") => enrollments' = enrollments
       /\ \A e \in enrollments' :
            \E a \in applications' :
                a.user_id = e.user_id /\ a.course_id = e.course_id]_vars

\* C27 witness: an Enrollment outlives the approval: its pair's Application
\* has since been set back to pending or rejected.
C27_EnrollmentOfRevokedApplication ==
    /\ last.op = "update_status" /\ last.code = 200 /\ last.st # "approved"
    /\ EnrollmentsOf(last.user, last.course) # {}

\* C28 (as claimed): a delete_course call that leaves the course in place
\* leaves its enrollments, videos and quizzes in place too.
C28_DeleteCourseAllOrNothing ==
    [][(Served("delete_course") /\ last'.course \in courses') =>
          /\ enrollments' = enrollments
          /\ videos' = videos
          /\ quizzes' = quizzes]_vars

\* C29 (as claimed): a submit_quiz call that is refused leaves the student's
\* stored QuizSubmission for that quiz as it was.
C29_RefusedSubmissionKeepsOld ==
    [][(Served("submit_quiz") /\ last'.code # 200) =>
          {q \in quiz_submissions' :
              q.student_id = last'.user /\ q.quiz_id = last'.course}
          = QuizSubmissionsOf(last'.user, last'.course)]_vars

\* C30 (as claimed): a CourseProgress row with completed = TRUE has
\* progress_percentage = 100.
C30_CompletedMeansAllDone ==
    \A r \in course_progress : r.completed => r.progress_percentage = Percent
====
